---- MODULE Spec2Model ----
(***************************************************************************)
(* Model of the devcontainer generation pipeline:                          *)
(*   helpers/devcontainer_helpers.py  truncate_context,                    *)
(*                                    generate_devcontainer_json,          *)
(*                                    validate_devcontainer_json           *)
(*   helpers/llm_provider.py          LLMProviderManager                   *)
(*   helpers/openai_helpers.py        setup_instructor                     *)
(*                                                                         *)
(* Python strings that the code searches, slices or compares by content    *)
(* are tuples of one-character strings; indices are 0-based as in Python.  *)
(***************************************************************************)
EXTENDS Integers, Sequences, FiniteSets, TLC

VARIABLES
    \* ---- truncate_context, as a function applied to drawn inputs
    tc_pc,            \* "idle" | "ready" | "done"
    tc_context,       \* the context argument
    tc_max_tokens,    \* the max_tokens argument
    tc_result,        \* the returned text (<<>> until tc_pc = "done")
    \* ---- LLMProviderManager, as functions applied to a drawn environment
    pm_pc,            \* "idle" | "ready"
    pm_LLM_PROVIDER,  \* os.getenv("LLM_PROVIDER"): None when unset
    pm_MODEL,         \* os.getenv("MODEL"): None when unset
    pm_provider,      \* what get_provider() returned (None before)
    pm_default_model, \* what get_default_model() returned (None before)
    pm_validation,    \* the arguments and result of the last
                      \* validate_model_for_provider call (None before)
    \* ---- save_devcontainer and the devcontainers table
    sv_pc,            \* "idle" | "ready" | "inserting" | "returned" | "raised"
    sv_record,        \* the new_devcontainer argument
    sv_ops,           \* the table operations the current call has issued
    sv_outcome,       \* what execute() did for the current call
    sv_result,        \* the value the current call returned
    sv_error,         \* the exception the current call raised
    sv_saves,         \* number of calls of save_devcontainer so far
    \* ---- generate_devcontainer_json called by several requests of one host
    requests,         \* request id -> the frame of its call (arguments, locals)
    received,         \* request id -> the provider outcomes delivered to it
    \* ---- the environment and the structured client
    env_LLM_PROVIDER, \* os.getenv("LLM_PROVIDER"): None when unset
    env_MODEL,        \* os.getenv("MODEL"): None when unset
    instructor_client,\* what setup_instructor returned (None before)
    \* ---- generate_devcontainer_json: arguments
    repo_url,
    repo_context,
    devcontainer_url,
    max_retries,
    regenerate,
    \* ---- generate_devcontainer_json: locals and position
    pc,               \* "idle" | "setup" | "setup_failed" | "start" | "invoke"
                      \* | "await_call" | "await_fallback" | "validate"
                      \* | "returned" | "raised"
    existing_devcontainer,
    prompt,
    attempt,
    model,
    provider,
    response,
    result,           \* the returned (artifact, url) pair
    error,            \* the exception raised to the caller
    \* ---- the provider, as the orchestrator's calls see it
    inflight,         \* the call that has been issued and not completed
    calls,            \* number of provider calls issued by the request
    last,             \* the last completed call and how it ended
    \* ---- the validator
    validations,      \* number of calls of validate_devcontainer_json
    rejected,         \* number of those that returned False
    logged            \* what the last failed attempt logged as its diagnostic

tcVars == <<tc_pc, tc_context, tc_max_tokens, tc_result>>

pmVars ==
    <<pm_pc, pm_LLM_PROVIDER, pm_MODEL, pm_provider, pm_default_model,
      pm_validation>>

svVars ==
    <<sv_pc, sv_record, sv_ops, sv_outcome, sv_result, sv_error, sv_saves>>

rqVars == <<requests, received>>

\* the variables of the functions that are checked on their own
unitVars == <<tcVars, pmVars, svVars, rqVars>>

envVars == <<env_LLM_PROVIDER, env_MODEL, instructor_client>>

argVars == <<repo_url, repo_context, devcontainer_url, max_retries, regenerate>>

genVars ==
    <<pc, existing_devcontainer, prompt, attempt, model, provider, response,
      result, error, inflight, calls, last, validations, rejected, logged>>

vars == <<unitVars, envVars, argVars, genVars>>

(***************************************************************************)
(* Bounds of the model.                                                    *)
(***************************************************************************)
\* longest context of the truncation specification, in pieces
MaxPieces == 4
\* largest max_tokens drawn for truncate_context
MaxBudget == 12
\* largest max_retries drawn for generate_devcontainer_json
MaxRetries == 2
\* largest number of calls of save_devcontainer
MaxSaves == 2
\* largest max_retries of the requests that run together
MaxConcurrentRetries == 1

\* line 80: the token ceiling of the prompt's context
MAX_CONTEXT_TOKENS == 126000

(***************************************************************************)
(* String literals of the source.                                          *)
(***************************************************************************)
\* "<<END_SECTION: Repository Structure >>"
STRUCTURE_END ==
    <<"<", "<", "E", "N", "D", "_", "S", "E", "C", "T", "I", "O", "N", ":",
      " ", "R", "e", "p", "o", "s", "i", "t", "o", "r", "y", " ", "S", "t",
      "r", "u", "c", "t", "u", "r", "e", " ", ">", ">">>

\* "<<END_SECTION: Repository Languages >>"
LANGUAGES_END ==
    <<"<", "<", "E", "N", "D", "_", "S", "E", "C", "T", "I", "O", "N", ":",
      " ", "R", "e", "p", "o", "s", "i", "t", "o", "r", "y", " ", "L", "a",
      "n", "g", "u", "a", "g", "e", "s", " ", ">", ">">>

\* "<<END_SECTION: Repository Languages >>\n\n"
LANGUAGES_END_NL ==
    <<"<", "<", "E", "N", "D", "_", "S", "E", "C", "T", "I", "O", "N", ":",
      " ", "R", "e", "p", "o", "s", "i", "t", "o", "r", "y", " ", "L", "a",
      "n", "g", "u", "a", "g", "e", "s", " ", ">", ">", "\n", "\n">>

\* "<<EXISTING_DEVCONTAINER>>"
EXISTING_START ==
    <<"<", "<", "E", "X", "I", "S", "T", "I", "N", "G", "_", "D", "E", "V",
      "C", "O", "N", "T", "A", "I", "N", "E", "R", ">", ">">>

\* "<<END_EXISTING_DEVCONTAINER>>"
EXISTING_END ==
    <<"<", "<", "E", "N", "D", "_", "E", "X", "I", "S", "T", "I", "N", "G",
      "_", "D", "E", "V", "C", "O", "N", "T", "A", "I", "N", "E", "R", ">",
      ">">>


\* the model names of llm_provider.py (lines 171-177, 203-209)
MODEL_NAMES ==
    [ gpt_4o |->
        <<"g", "p", "t", "-", "4", "o">>,
      gpt_4o_mini |->
        <<"g", "p", "t", "-", "4", "o", "-", "m", "i", "n", "i">>,
      gpt_4_turbo |->
        <<"g", "p", "t", "-", "4", "-", "t", "u", "r", "b", "o">>,
      gpt_4 |->
        <<"g", "p", "t", "-", "4">>,
      gpt_35_turbo |->
        <<"g", "p", "t", "-", "3", "5", "-", "t", "u", "r", "b", "o">>,
      gpt_3_5_turbo |->
        <<"g", "p", "t", "-", "3", ".", "5", "-", "t", "u", "r", "b",
          "o">>,
      claude_3_5_sonnet_20241022 |->
        <<"c", "l", "a", "u", "d", "e", "-", "3", "-", "5", "-", "s",
          "o", "n", "n", "e", "t", "-", "2", "0", "2", "4", "1", "0",
          "2", "2">>,
      claude_3_opus_20240229 |->
        <<"c", "l", "a", "u", "d", "e", "-", "3", "-", "o", "p", "u",
          "s", "-", "2", "0", "2", "4", "0", "2", "2", "9">>,
      claude_3_sonnet_20240229 |->
        <<"c", "l", "a", "u", "d", "e", "-", "3", "-", "s", "o", "n",
          "n", "e", "t", "-", "2", "0", "2", "4", "0", "2", "2", "9">>,
      claude_3_haiku_20240307 |->
        <<"c", "l", "a", "u", "d", "e", "-", "3", "-", "h", "a", "i",
          "k", "u", "-", "2", "0", "2", "4", "0", "3", "0", "7">>,
      gemini_2_5_pro |->
        <<"g", "e", "m", "i", "n", "i", "-", "2", ".", "5", "-", "p",
          "r", "o">>,
      gemini_2_0_flash |->
        <<"g", "e", "m", "i", "n", "i", "-", "2", ".", "0", "-", "f",
          "l", "a", "s", "h">>,
      gemini_1_5_pro |->
        <<"g", "e", "m", "i", "n", "i", "-", "1", ".", "5", "-", "p",
          "r", "o">>,
      gemini_1_5_flash |->
        <<"g", "e", "m", "i", "n", "i", "-", "1", ".", "5", "-", "f",
          "l", "a", "s", "h">>,
      gemini_pro |->
        <<"g", "e", "m", "i", "n", "i", "-", "p", "r", "o">>,
      gemini_1_0_pro |->
        <<"g", "e", "m", "i", "n", "i", "-", "1", ".", "0", "-", "p",
          "r", "o">>,
      llama_3_3_70b_versatile |->
        <<"l", "l", "a", "m", "a", "-", "3", ".", "3", "-", "7", "0",
          "b", "-", "v", "e", "r", "s", "a", "t", "i", "l", "e">>,
      llama_3_1_70b_versatile |->
        <<"l", "l", "a", "m", "a", "-", "3", ".", "1", "-", "7", "0",
          "b", "-", "v", "e", "r", "s", "a", "t", "i", "l", "e">>,
      llama_3_1_8b_instant |->
        <<"l", "l", "a", "m", "a", "-", "3", ".", "1", "-", "8", "b",
          "-", "i", "n", "s", "t", "a", "n", "t">>,
      mixtral_8x7b_32768 |->
        <<"m", "i", "x", "t", "r", "a", "l", "-", "8", "x", "7", "b",
          "-", "3", "2", "7", "6", "8">>,
      gemma2_9b_it |->
        <<"g", "e", "m", "m", "a", "2", "-", "9", "b", "-", "i", "t">> ]

\* lines 165-169: the ValueError of a rejected last attempt
VALIDATION_FAILED_MSG ==
    <<"F", "a", "i", "l", "e", "d", " ", "t", "o", " ", "g", "e", "n", "e",
      "r", "a", "t", "e", " ", "v", "a", "l", "i", "d", " ", "d", "e", "v",
      "c", "o", "n", "t", "a", "i", "n", "e", "r", ".", "j", "s", "o", "n",
      " ", "a", "f", "t", "e", "r", " ", "m", "a", "x", "i", "m", "u", "m",
      " ", "r", "e", "t", "r", "i", "e", "s", ".", " ", "C", "h", "e", "c",
      "k", " ", "l", "o", "g", "s", " ", "f", "o", "r", " ", "v", "a", "l",
      "i", "d", "a", "t", "i", "o", "n", " ", "e", "r", "r", "o", "r", "s",
      ".", " ", "T", "h", "i", "s", " ", "m", "a", "y", " ", "b", "e", " ",
      "d", "u", "e", " ", "t", "o", " ", "t", "h", "e", " ", "L", "L", "M",
      " ", "p", "r", "o", "v", "i", "d", "e", "r", "'", "s", " ", "c", "a",
      "p", "a", "b", "i", "l", "i", "t", "i", "e", "s", " ", "w", "i", "t",
      "h", " ", "s", "t", "r", "u", "c", "t", "u", "r", "e", "d", " ", "o",
      "u", "t", "p", "u", "t", "s", ".">>

\* lines 127-132: the ValueError of a tool-calling failure on the last attempt
TOOL_FAILED_MSG ==
    <<"T", "h", "e", " ", "L", "L", "M", " ", "p", "r", "o", "v", "i", "d",
      "e", "r", " ", "f", "a", "i", "l", "e", "d", " ", "t", "o", " ", "g",
      "e", "n", "e", "r", "a", "t", "e", " ", "v", "a", "l", "i", "d", " ",
      "s", "t", "r", "u", "c", "t", "u", "r", "e", "d", " ", "o", "u", "t",
      "p", "u", "t", " ", "a", "f", "t", "e", "r", " ", "m", "u", "l", "t",
      "i", "p", "l", "e", " ", "a", "t", "t", "e", "m", "p", "t", "s", ".",
      " ", "T", "h", "i", "s", " ", "i", "s", " ", "a", " ", "k", "n", "o",
      "w", "n", " ", "l", "i", "m", "i", "t", "a", "t", "i", "o", "n", " ",
      "w", "i", "t", "h", " ", "s", "o", "m", "e", " ", "p", "r", "o", "v",
      "i", "d", "e", "r", "s", " ", "(", "e", "s", "p", "e", "c", "i", "a",
      "l", "l", "y", " ", "G", "r", "o", "q", " ", "w", "i", "t", "h", " ",
      "c", "o", "m", "p", "l", "e", "x", " ", "s", "c", "h", "e", "m", "a",
      "s", ")", ".", " ", "R", "e", "c", "o", "m", "m", "e", "n", "d", "a",
      "t", "i", "o", "n", ":", " ", "S", "w", "i", "t", "c", "h", " ", "t",
      "o", " ", "O", "p", "e", "n", "A", "I", " ", "o", "r", " ", "A", "n",
      "t", "h", "r", "o", "p", "i", "c", " ", "f", "o", "r", " ", "b", "e",
      "t", "t", "e", "r", " ", "r", "e", "l", "i", "a", "b", "i", "l", "i",
      "t", "y", ".", " ", "R", "u", "n", ":", " ", ".", "/", "s", "w", "i",
      "t", "c", "h", "_", "t", "o", "_", "o", "p", "e", "n", "a", "i", ".",
      "s", "h">>

\* line 175: the ValueError after the loop
LOOP_END_MSG ==
    <<"F", "a", "i", "l", "e", "d", " ", "t", "o", " ", "g", "e", "n", "e",
      "r", "a", "t", "e", " ", "v", "a", "l", "i", "d", " ", "d", "e", "v",
      "c", "o", "n", "t", "a", "i", "n", "e", "r", ".", "j", "s", "o", "n",
      " ", "a", "f", "t", "e", "r", " ", "m", "a", "x", "i", "m", "u", "m",
      " ", "r", "e", "t", "r", "i", "e", "s">>

\* line 122: "tool_use_failed"
TOOL_USE_FAILED ==
    <<"t", "o", "o", "l", "_", "u", "s", "e", "_", "f", "a", "i", "l", "e",
      "d">>

\* line 122: "failed to call a function"
FAILED_TO_CALL ==
    <<"f", "a", "i", "l", "e", "d", " ", "t", "o", " ", "c", "a", "l", "l",
      " ", "a", " ", "f", "u", "n", "c", "t", "i", "o", "n">>

\* line 133: "does not support"
DOES_NOT_SUPPORT ==
    <<"d", "o", "e", "s", " ", "n", "o", "t", " ", "s", "u", "p", "p", "o",
      "r", "t">>

\* line 133: "temperature"
TEMPERATURE ==
    <<"t", "e", "m", "p", "e", "r", "a", "t", "u", "r", "e">>

\* texts of the exceptions the provider calls and the validator raise
MESSAGES ==
    [ TOOL_TEXT |->
        <<"F", "a", "i", "l", "e", "d", " ", "t", "o", " ", "c", "a",
          "l", "l", " ", "a", " ", "f", "u", "n", "c", "t", "i", "o",
          "n", ".">>,
      TOOL_AND_TEMPERATURE |->
        <<"t", "o", "o", "l", "_", "u", "s", "e", "_", "f", "a", "i",
          "l", "e", "d", " ", "a", "t", " ", "t", "e", "m", "p", "e",
          "r", "a", "t", "u", "r", "e", " ", "0", ".", "1">>,
      TEMPERATURE |->
        <<"T", "e", "m", "p", "e", "r", "a", "t", "u", "r", "e", " ",
          "i", "s", " ", "n", "o", "t", " ", "a", "d", "j", "u", "s",
          "t", "a", "b", "l", "e">>,
      NO_SUPPORT |->
        <<"m", "o", "d", "e", "l", " ", "d", "o", "e", "s", " ", "n",
          "o", "t", " ", "s", "u", "p", "p", "o", "r", "t", " ", "i",
          "t">>,
      AUTH |->
        <<"I", "n", "v", "a", "l", "i", "d", " ", "A", "P", "I", " ",
          "k", "e", "y">>,
      NO_CHAT |->
        <<"n", "o", " ", "a", "t", "t", "r", "i", "b", "u", "t", "e",
          " ", "'", "c", "h", "a", "t", "'">>,
      NO_SCHEMA |->
        <<"N", "o", " ", "s", "u", "c", "h", " ", "f", "i", "l", "e",
          " ", "o", "r", " ", "d", "i", "r", "e", "c", "t", "o", "r",
          "y">> ]

\* the instance path of a schema violation
DIAG_PATH ==
    <<"f", "o", "r", "w", "a", "r", "d", "P", "o", "r", "t", "s">>

\* the message of a schema violation
DIAG_MESSAGE ==
    <<"7", "0", "0", "0", "0", " ", "i", "s", " ", "g", "r", "e", "a", "t",
      "e", "r", " ", "t", "h", "a", "n", " ", "t", "h", "e", " ", "m", "a",
      "x", "i", "m", "u", "m", " ", "o", "f", " ", "6", "5", "5", "3", "5">>
(***************************************************************************)
(* Python str / list primitives.                                           *)
(***************************************************************************)
Min(a, b) == IF a <= b THEN a ELSE b
Max(a, b) == IF a >= b THEN a ELSE b

\* normalisation of a slice bound: negative counts from the end, then clamp
SliceBound(i, n) ==
    IF i < 0 THEN Max(i + n, 0) ELSE Min(i, n)

\* f(v), the argument v being evaluated once, before the call
Apply(f(_), v) == CHOOSE r \in { f(x) : x \in { v } } : TRUE

\* s[lo:hi]
Slice(s, lo, hi) ==
    SubSeq(s, SliceBound(lo, Len(s)) + 1, SliceBound(hi, Len(s)))

\* s[lo:]
SliceFrom(s, lo) == Slice(s, lo, Len(s))

\* s[:hi]
SliceTo(s, hi) == Slice(s, 0, hi)

\* s.startswith(p) at 0-based offset i
MatchAt(p, s, i) ==
    /\ i + Len(p) <= Len(s)
    /\ SubSeq(s, i + 1, i + Len(p)) = p

\* p in s
Contains(p, s) == \E i \in 0..Len(s) : MatchAt(p, s, i)

\* s.find(p): lowest index of p in s, -1 when absent
Find(p, s) ==
    IF Contains(p, s)
    THEN CHOOSE i \in 0..Len(s) :
            /\ MatchAt(p, s, i)
            /\ \A j \in 0..(i - 1) : ~MatchAt(p, s, j)
    ELSE -1

RECURSIVE Concat(_)
\* "".join(parts)
Concat(parts) ==
    IF parts = <<>> THEN <<>> ELSE Head(parts) \o Concat(Tail(parts))

(***************************************************************************)
(* The tokenizer, tiktoken.encoding_for_model("gpt-4o-mini"): a            *)
(* deterministic encoding in which a token is a run of characters, some    *)
(* runs are single tokens (so the token count of a concatenation is not    *)
(* the sum of the counts), and decode(encode(s)) = s.                      *)
(***************************************************************************)
MergedTokens ==
    { <<"<", "<">>, <<">", ">">>, <<" ", ">", ">">>, <<"E", "N", "D">>,
      <<"_", "S", "E", "C", "T", "I", "O", "N">>,
      <<" ", "R", "e", "p", "o", "s", "i", "t", "o", "r", "y">>,
      <<" ", "L", "a", "n", "g", "u", "a", "g", "e", "s">>,
      <<" ", "S", "t", "r", "u", "c", "t", "u", "r", "e">>,
      <<"\n", "\n">>, <<"a", "b">> }

\* the token the encoding takes at 0-based offset i of the text
TokenAt(text, i) ==
    LET fits == { t \in MergedTokens :
                    /\ text[i + 1] = t[1]
                    /\ MatchAt(t, text, i) }
    IN  IF fits = {}
        THEN <<text[i + 1]>>
        ELSE CHOOSE t \in fits : \A u \in fits : Len(u) <= Len(t)

\* the tokens of text[i:]
EncodeFrom(text, i) ==
    LET from[k \in 0..Len(text)] ==
            IF k >= Len(text)
            THEN <<>>
            ELSE LET t == TokenAt(text, k)
                 IN  <<t>> \o from[k + Len(t)]
    IN  from[i]

\* encoding.encode(text): the list of tokens
encode(text) == EncodeFrom(text, 0)

\* encoding.decode(tokens)
decode(tokens) == Concat(tokens)

(***************************************************************************)
(* truncate_context(context, max_tokens)                                   *)
(***************************************************************************)
\* WithinLimit with < for <=
WithinLimit_Strict(tokens, max_tokens) == Len(tokens) < max_tokens

\* line 27: the context is returned as it is
WithinLimit(tokens, max_tokens) == Len(tokens) <= max_tokens

\* ImportantTooBig that lets one token too many through
ImportantTooBig_OffByOne(important_tokens, max_tokens) ==
    Len(important_tokens) > max_tokens + 1

\* line 46: the important content alone exceeds the budget
ImportantTooBig(important_tokens, max_tokens) ==
    Len(important_tokens) > max_tokens

\* ImportantCut that keeps one token more than the budget
ImportantCut_OneMore(important_tokens, max_tokens) ==
    decode(SliceTo(important_tokens, max_tokens + 1))

\* line 48: the important content cut at a token boundary
ImportantCut(important_tokens, max_tokens) ==
    decode(SliceTo(important_tokens, max_tokens))

\* RemainingBudget that forgets what the important content takes
RemainingBudget_Whole(important_tokens, max_tokens) == max_tokens

\* line 51: the tokens left for the content after the marker
RemainingBudget(important_tokens, max_tokens) ==
    max_tokens - Len(important_tokens)

truncate_context(context, max_tokens) ==
    LET tokens == encode(context)
    IN  IF WithinLimit(tokens, max_tokens)
        THEN context
        ELSE
          LET languages_end == Find(LANGUAGES_END, context)
              important_content ==
                  SliceTo(context, languages_end) \o LANGUAGES_END_NL
              remaining_content ==
                  SliceFrom(context, languages_end + Len(LANGUAGES_END_NL))
              important_tokens == encode(important_content)
          IN  IF ImportantTooBig(important_tokens, max_tokens)
              THEN ImportantCut(important_tokens, max_tokens)
              ELSE
                LET remaining_tokens ==
                        RemainingBudget(important_tokens, max_tokens)
                    truncated_remaining ==
                        decode(SliceTo(encode(remaining_content),
                                       remaining_tokens))
                IN  important_content \o truncated_remaining


(***************************************************************************)
(* Specification of truncate_context on drawn inputs.                      *)
(***************************************************************************)
TruncPieces ==
    { <<"a">>, <<"b">>, <<"\n", "\n">>, LANGUAGES_END, STRUCTURE_END }

RECURSIVE PieceSeqs(_)
PieceSeqs(n) ==
    IF n = 0
    THEN { <<>> }
    ELSE LET shorter == PieceSeqs(n - 1)
         IN  shorter \cup
             { <<p>> \o s : p \in TruncPieces,
                            s \in { x \in shorter : Len(x) = n - 1 } }

TruncContexts == { Concat(ps) : ps \in PieceSeqs(MaxPieces) }

TcInit ==
    /\ tc_pc = "ready"
    /\ tc_context \in TruncContexts
    /\ tc_max_tokens \in 0..MaxBudget
    /\ tc_result = <<>>

TcIdle ==
    /\ tc_pc = "idle"
    /\ tc_context = <<>>
    /\ tc_max_tokens = 0
    /\ tc_result = <<>>

TruncateContext ==
    /\ tc_pc = "ready"
    /\ tc_result' = truncate_context(tc_context, tc_max_tokens)
    /\ tc_pc' = "done"
    /\ UNCHANGED <<tc_context, tc_max_tokens>>

(***************************************************************************)
(* Python None and optional values.                                        *)
(***************************************************************************)
None == [none |-> TRUE]
Some(v) == [none |-> FALSE, val |-> v]

\* truthiness of an optional str: None and "" are false
Truthy(o, empty) == (~o.none) /\ o.val # empty

\* the lower-case letter of each upper-case ASCII letter
ASCII_LOWER ==
    [A |-> "a", B |-> "b", C |-> "c", D |-> "d", E |-> "e", F |-> "f",
     G |-> "g", H |-> "h", I |-> "i", J |-> "j", K |-> "k", L |-> "l",
     M |-> "m", N |-> "n", O |-> "o", P |-> "p", Q |-> "q", R |-> "r",
     S |-> "s", T |-> "t", U |-> "u", V |-> "v", W |-> "w", X |-> "x",
     Y |-> "y", Z |-> "z"]

LowerChar(c) == IF c \in DOMAIN ASCII_LOWER THEN ASCII_LOWER[c] ELSE c

\* s.lower()
lower(s) == [i \in 1..Len(s) |-> LowerChar(s[i])]

Whitespace == { " ", "\n", "\t", "\r" }

RECURSIVE lstrip(_)
lstrip(s) ==
    IF s # <<>> /\ Head(s) \in Whitespace THEN lstrip(Tail(s)) ELSE s

RECURSIVE rstrip(_)
rstrip(s) ==
    IF s # <<>> /\ s[Len(s)] \in Whitespace
    THEN rstrip(SubSeq(s, 1, Len(s) - 1))
    ELSE s

\* s.strip()
strip(s) == Apply(rstrip, lstrip(s))

\* s.split(sep)[0]
SplitFirst(s, sep) ==
    IF Contains(sep, s) THEN SliceTo(s, Find(sep, s)) ELSE s

\* s.split(sep)[1], for s that contains sep
SplitSecond(s, sep) ==
    Apply(LAMBDA rest : SplitFirst(rest, sep),
          SliceFrom(s, Find(sep, s) + Len(sep)))

(***************************************************************************)
(* LLMProviderManager (helpers/llm_provider.py).  The environment values   *)
(* LLM_PROVIDER and MODEL are passed as optional values: None when unset.  *)
(***************************************************************************)
SUPPORTED_PROVIDERS == { "AzureOpenAI", "OpenAI", "Anthropic", "Google", "Groq" }

\* get_provider without the membership test
get_provider_Unchecked(LLM_PROVIDER) ==
    IF LLM_PROVIDER.none THEN "AzureOpenAI" ELSE LLM_PROVIDER.val

get_provider(LLM_PROVIDER) ==
    LET prov == IF LLM_PROVIDER.none THEN "AzureOpenAI" ELSE LLM_PROVIDER.val
    IN  IF prov \notin SUPPORTED_PROVIDERS THEN "AzureOpenAI" ELSE prov

\* valid_models.get(provider, [])
valid_models(prov) ==
    CASE prov = "AzureOpenAI" ->
            <<MODEL_NAMES.gpt_4o, MODEL_NAMES.gpt_4o_mini,
              MODEL_NAMES.gpt_4_turbo, MODEL_NAMES.gpt_4,
              MODEL_NAMES.gpt_35_turbo, MODEL_NAMES.gpt_3_5_turbo>>
      [] prov = "OpenAI" ->
            <<MODEL_NAMES.gpt_4o, MODEL_NAMES.gpt_4o_mini,
              MODEL_NAMES.gpt_4_turbo, MODEL_NAMES.gpt_4,
              MODEL_NAMES.gpt_3_5_turbo>>
      [] prov = "Anthropic" ->
            <<MODEL_NAMES.claude_3_5_sonnet_20241022,
              MODEL_NAMES.claude_3_opus_20240229,
              MODEL_NAMES.claude_3_sonnet_20240229,
              MODEL_NAMES.claude_3_haiku_20240307>>
      [] prov = "Google" ->
            <<MODEL_NAMES.gemini_2_5_pro, MODEL_NAMES.gemini_2_0_flash,
              MODEL_NAMES.gemini_1_5_pro, MODEL_NAMES.gemini_1_5_flash,
              MODEL_NAMES.gemini_pro, MODEL_NAMES.gemini_1_0_pro>>
      [] prov = "Groq" ->
            <<MODEL_NAMES.llama_3_3_70b_versatile,
              MODEL_NAMES.llama_3_1_70b_versatile,
              MODEL_NAMES.llama_3_1_8b_instant,
              MODEL_NAMES.mixtral_8x7b_32768, MODEL_NAMES.gemma2_9b_it>>
      [] OTHER -> <<>>

\* validate_model_for_provider that accepts every model
validate_model_for_provider_AlwaysValid(m, prov) ==
    [is_valid |-> TRUE, error_message |-> <<>>]

\* the (is_valid, error_message) pair; the message keeps the parts of the
\* f-string as its elements
validate_model_for_provider(m, prov) ==
    LET provider_models == valid_models(prov)
    IN  IF provider_models = <<>>
        THEN [is_valid |-> TRUE, error_message |-> <<>>]
        ELSE IF \E i \in 1..Len(provider_models) :
                    \/ Contains(provider_models[i], m)
                    \/ Contains(m, provider_models[i])
        THEN [is_valid |-> TRUE, error_message |-> <<>>]
        ELSE [is_valid |-> FALSE,
              error_message |->
                  <<"Model '">> \o m
                  \o <<"' may not be compatible with provider '", prov,
                       "'. Common models for ", prov, ": ">>
                  \o Concat(SliceTo(provider_models, 3))]

\* defaults.get(provider, "gpt-4o-mini")
defaults(prov) ==
    CASE prov = "AzureOpenAI" -> MODEL_NAMES.gpt_4o_mini
      [] prov = "OpenAI" -> MODEL_NAMES.gpt_4o_mini
      [] prov = "Anthropic" -> MODEL_NAMES.claude_3_5_sonnet_20241022
      [] prov = "Google" -> MODEL_NAMES.gemini_1_5_pro
      [] prov = "Groq" -> MODEL_NAMES.llama_3_3_70b_versatile
      [] OTHER -> MODEL_NAMES.gpt_4o_mini

\* get_default_model that returns every non-empty MODEL
get_default_model_NoValidation(LLM_PROVIDER, MODEL) ==
    IF ~Truthy(MODEL, <<>>)
    THEN defaults(get_provider(LLM_PROVIDER))
    ELSE MODEL.val

get_default_model(LLM_PROVIDER, MODEL) ==
    LET prov == get_provider(LLM_PROVIDER)
        default_model == defaults(prov)
    IN  IF ~Truthy(MODEL, <<>>)
        THEN default_model
        ELSE IF ~validate_model_for_provider(MODEL.val, prov).is_valid
        THEN default_model
        ELSE MODEL.val

(***************************************************************************)
(* Specification of the provider selector on a drawn environment.          *)
(***************************************************************************)
KnownModels ==
    UNION { { valid_models(prov)[i] : i \in 1..Len(valid_models(prov)) } :
            prov \in SUPPORTED_PROVIDERS }

ProviderSettings ==
    { None } \cup { Some(p) : p \in SUPPORTED_PROVIDERS }
    \cup { Some(""), Some("openai"), Some("GROQ"), Some(" OpenAI"),
           Some("Mistral") }

\* the known names, and texts that are none of them: empty, a dated
\* name, a fragment of a name, a name in upper case, an unrelated text
ModelSettings ==
    { None, Some(<<>>),
      Some(<<"g", "p", "t", "-", "4", "o", "-", "2", "0", "2", "4">>),
      Some(<<"g", "p", "t">>),
      Some(<<"G", "P", "T", "-", "4", "O", "-", "M", "I", "N", "I">>),
      Some(<<"m", "y", "-", "m", "o", "d", "e", "l">>) }
    \cup { Some(k) : k \in KnownModels }

PmInit ==
    /\ pm_pc = "ready"
    /\ pm_LLM_PROVIDER \in ProviderSettings
    /\ pm_MODEL \in ModelSettings
    /\ pm_provider = None
    /\ pm_default_model = None
    /\ pm_validation = None

PmIdle ==
    /\ pm_pc = "idle"
    /\ pm_LLM_PROVIDER = None
    /\ pm_MODEL = None
    /\ pm_provider = None
    /\ pm_default_model = None
    /\ pm_validation = None

\* LLMProviderManager.get_provider()
GetProvider ==
    /\ pm_pc = "ready"
    /\ pm_provider = None
    /\ pm_provider' = Some(get_provider(pm_LLM_PROVIDER))
    /\ UNCHANGED <<pm_pc, pm_LLM_PROVIDER, pm_MODEL, pm_default_model,
                   pm_validation>>

\* LLMProviderManager.get_default_model()
GetDefaultModel ==
    /\ pm_pc = "ready"
    /\ pm_default_model = None
    /\ pm_default_model' =
           Some(get_default_model(pm_LLM_PROVIDER, pm_MODEL))
    /\ UNCHANGED <<pm_pc, pm_LLM_PROVIDER, pm_MODEL, pm_provider,
                   pm_validation>>

\* LLMProviderManager.validate_model_for_provider(MODEL, prov)
ValidateModel(prov) ==
    /\ pm_pc = "ready"
    /\ pm_validation = None
    /\ ~pm_MODEL.none
    /\ pm_validation' =
           Some([model |-> pm_MODEL.val, provider |-> prov,
                 out |-> validate_model_for_provider(pm_MODEL.val, prov)])
    /\ UNCHANGED <<pm_pc, pm_LLM_PROVIDER, pm_MODEL, pm_provider,
                   pm_default_model>>

(***************************************************************************)
(* setup_instructor (helpers/openai_helpers.py).  `patching` is what the   *)
(* instructor library does when asked to wrap the client: "ok", or         *)
(* "tools_raises" (only the TOOLS-mode patch raises), or "raises".         *)
(* The result is the structured client, or None when the function raises.  *)
(***************************************************************************)
Patchings == { "ok", "tools_raises", "raises" }

\* lines 41-47: the Groq branch
GroqClient(patching) ==
    CASE patching = "ok" -> Some([mode |-> "TOOLS"])
      [] patching = "tools_raises" -> Some([mode |-> "JSON"])
      [] OTHER -> None

setup_instructor(provider_name, patching) ==
    IF provider_name \in { "AzureOpenAI", "OpenAI" }
    THEN IF patching = "raises" THEN None ELSE Some([mode |-> "DEFAULT"])
    ELSE IF provider_name = "Groq"
    THEN GroqClient(patching)
    ELSE IF provider_name = "Anthropic"
    THEN IF patching = "raises" THEN None ELSE Some([mode |-> "ANTHROPIC"])
    ELSE IF provider_name = "Google"
    THEN IF patching = "raises" THEN None ELSE Some([mode |-> "GEMINI_JSON"])
    ELSE IF patching = "raises" THEN None ELSE Some([mode |-> "DEFAULT"])

(***************************************************************************)
(* Values of the generation request.                                       *)
(***************************************************************************)
\* a context without an embedded devcontainer.json
CTX_PLAIN == <<"a", "b">> \o LANGUAGES_END_NL \o <<"c", "d">>

\* a context that embeds a devcontainer.json, surrounded by white space
CTX_EXISTING ==
    <<"a">> \o EXISTING_START
    \o <<"\n", "{", "x", "}", "\n">> \o EXISTING_END \o <<"\n">>

\* a context whose embedded section holds white space only
CTX_EMPTY_EXISTING == EXISTING_START \o <<" ", "\n">> \o EXISTING_END

\* a context whose embedded section is not closed
CTX_UNCLOSED == <<"a">> \o EXISTING_START \o <<"{", "y", "}">>

RepoContexts == { CTX_PLAIN, CTX_EXISTING, CTX_EMPTY_EXISTING, CTX_UNCLOSED }

RepoUrls == { "https://github.com/acme/app" }

DevcontainerUrls ==
    { None, Some("https://github.com/acme/app/.devcontainer/devcontainer.json") }

EnvProviders == { None, Some("Groq") }

EnvModels == { None, Some(MODEL_NAMES.gpt_4o_mini) }

\* line 108: the system instruction
SYSTEM_INSTRUCTION ==
    "You are a helpful assistant that generates valid, complete devcontainer.json files. Ensure all JSON is properly closed with matching braces."

(***************************************************************************)
(* What a provider call can produce: a DevContainerModel object, or an     *)
(* exception.  An object carries `violation`, the rule of                  *)
(* schemas/devContainer.base.schema.json its JSON breaks (None: it         *)
(* conforms); pydantic has already checked the typed fields.               *)
(***************************************************************************)
DOC_OK ==
    [fields |-> [name |-> "str", image |-> "str", forwardPorts |-> "None",
                 customizations |-> "None", settings |-> "None",
                 postCreateCommand |-> "str"],
     violation |-> None]

DOC_BAD ==
    [fields |-> [name |-> "str", image |-> "str", forwardPorts |-> "list",
                 customizations |-> "None", settings |-> "None",
                 postCreateCommand |-> "None"],
     violation |-> Some([path |-> DIAG_PATH, message |-> DIAG_MESSAGE])]

Docs == { DOC_OK, DOC_BAD }

Exc(type, msg) == [type |-> type, msg |-> msg]

NoExc == Exc("none", <<>>)

ERR_ATTRIBUTE == Exc("AttributeError", MESSAGES.NO_CHAT)
ERR_TOOL_TEXT == Exc("APIError", MESSAGES.TOOL_TEXT)
ERR_TOOL_AND_TEMPERATURE == Exc("APIError", MESSAGES.TOOL_AND_TEMPERATURE)
ERR_TEMPERATURE == Exc("APIError", MESSAGES.TEMPERATURE)
ERR_NO_SUPPORT == Exc("APIError", MESSAGES.NO_SUPPORT)
ERR_AUTH == Exc("AuthenticationError", MESSAGES.AUTH)

ProviderErrors ==
    { ERR_ATTRIBUTE, ERR_TOOL_TEXT, ERR_TOOL_AND_TEMPERATURE, ERR_TEMPERATURE,
      ERR_NO_SUPPORT, ERR_AUTH }

ERR_NO_SCHEMA == Exc("FileNotFoundError", MESSAGES.NO_SCHEMA)

(***************************************************************************)
(* State of one run: environment, setup_instructor, then one call of       *)
(* generate_devcontainer_json.                                             *)
(***************************************************************************)
\* lines 66-72: the text between the markers, None without the start marker
ExtractExisting(context) ==
    IF Contains(EXISTING_START, context)
    THEN Some(Apply(strip,
                    Apply(LAMBDA rest : SplitFirst(rest, EXISTING_END),
                          SplitSecond(context, EXISTING_START))))
    ELSE None

\* ShortCircuit with the test of line 66 replaced by the truth value of the
\* extracted text
ShortCircuit_NonEmptyOnly(context, regen, url) ==
    /\ Truthy(ExtractExisting(context), <<>>)
    /\ ~regen
    /\ Truthy(url, "")

\* lines 66 and 73: the embedded artifact is returned without generating
ShortCircuit(context, regen, url) ==
    /\ Contains(EXISTING_START, context)
    /\ ~regen
    /\ Truthy(url, "")

\* helpers/jinja_helper.process_template("prompts/devcontainer.jinja", ...)
process_template(url, truncated_context, existing) ==
    [template |-> "prompts/devcontainer.jinja",
     repo_url |-> url,
     repo_context |-> truncated_context,
     existing_devcontainer |-> existing]

\* line 93
SelectModel(LLM_PROVIDER, MODEL) ==
    IF Truthy(MODEL, <<>>)
    THEN MODEL.val
    ELSE get_default_model(LLM_PROVIDER, MODEL)

Messages(p) ==
    << [role |-> "system", content |-> SYSTEM_INSTRUCTION],
       [role |-> "user", content |-> p] >>

\* FirstCall that leaves the temperature out
FirstCall_OmitsTemperature(client, m, p, n) ==
    [serial |-> n, kind |-> "first", mode |-> client.mode, model |-> m,
     response_model |-> "DevContainerModel", temperature |-> "omitted",
     instructor_retries |-> 2, messages |-> Messages(p)]

\* lines 102-111: the call of an attempt
FirstCall(client, m, p, n) ==
    [serial |-> n, kind |-> "first", mode |-> client.mode, model |-> m,
     response_model |-> "DevContainerModel", temperature |-> "0.1",
     instructor_retries |-> 2, messages |-> Messages(p)]

\* SecondCall that sends the user prompt without the system instruction
SecondCall_NoSystem(client, m, p, n) ==
    [serial |-> n, kind |-> "fallback", mode |-> client.mode, model |-> m,
     response_model |-> "DevContainerModel", temperature |-> "omitted",
     instructor_retries |-> 2,
     messages |-> << [role |-> "user", content |-> p] >>]

\* SecondCall that passes the temperature again
SecondCall_KeepsTemperature(client, m, p, n) ==
    [serial |-> n, kind |-> "fallback", mode |-> client.mode, model |-> m,
     response_model |-> "DevContainerModel", temperature |-> "0.1",
     instructor_retries |-> 2, messages |-> Messages(p)]

\* lines 136-144: the call without the temperature parameter
SecondCall(client, m, p, n) ==
    [serial |-> n, kind |-> "fallback", mode |-> client.mode, model |-> m,
     response_model |-> "DevContainerModel", temperature |-> "omitted",
     instructor_retries |-> 2, messages |-> Messages(p)]

\* line 122
IsToolFailure(error_msg) ==
    LET lowered == lower(error_msg)
    IN  \/ Contains(TOOL_USE_FAILED, lowered)
        \/ Contains(FAILED_TO_CALL, lowered)

\* line 133
IsTemperatureFailure(error_msg) ==
    LET lowered == lower(error_msg)
    IN  \/ Contains(DOES_NOT_SUPPORT, lowered)
        \/ Contains(TEMPERATURE, lowered)

\* Classify with the tests of lines 122 and 133 in the other order
Classify_TemperatureFirst(e) ==
    IF e.type = "AttributeError" THEN "attribute"
    ELSE IF IsTemperatureFailure(e.msg) THEN "temperature"
    ELSE IF IsToolFailure(e.msg) THEN "tool"
    ELSE "other"

\* lines 112-146: the handler that takes the exception of the first call
Classify(e) ==
    IF e.type = "AttributeError" THEN "attribute"
    ELSE IF IsToolFailure(e.msg) THEN "tool"
    ELSE IF IsTemperatureFailure(e.msg) THEN "temperature"
    ELSE "other"

\* line 124
ToolRetry(a, retries) == a < retries

\* line 162
ValidationExhausted(a, retries) == a = retries

\* LastAttempt that never holds
LastAttempt_Never(a, retries) == a = retries + 1

\* line 172
LastAttempt(a, retries) == a = retries

\* line 148: json.dumps(response.dict(exclude_none=True), indent=2)
dumps(r) ==
    [call |-> r.call,
     keys |-> { k \in DOMAIN r.doc.fields : r.doc.fields[k] # "None" },
     violation |-> r.doc.violation]

NoJson == [call |-> 0, keys |-> {}, violation |-> None]

Embedded(text) == [kind |-> "embedded", text |-> text, json |-> NoJson]

Generated(json) == [kind |-> "generated", text |-> <<>>, json |-> json]

\* lines 177-207.  The text is the dump of an object, so it parses; the
\* schema file may be missing, and then open() raises.
validate_devcontainer_json(devcontainer_json, schema_readable) ==
    IF ~schema_readable
    THEN [raises |-> Some(ERR_NO_SCHEMA), value |-> FALSE]
    ELSE [raises |-> None, value |-> devcontainer_json.violation.none]

\* AcceptResult without the test of regenerate
AcceptResult_IgnoresRegenerate(existing, regen, url, devcontainer_json) ==
    IF Truthy(existing, <<>>)
    THEN [artifact |-> Embedded(existing.val), url |-> url]
    ELSE [artifact |-> Generated(devcontainer_json), url |-> None]

\* AcceptResult that hands the url argument back with the generated text
AcceptResult_KeepsUrl(existing, regen, url, devcontainer_json) ==
    IF Truthy(existing, <<>>) /\ ~regen
    THEN [artifact |-> Embedded(existing.val), url |-> url]
    ELSE [artifact |-> Generated(devcontainer_json), url |-> url]

\* lines 155-158
AcceptResult(existing, regen, url, devcontainer_json) ==
    IF Truthy(existing, <<>>) /\ ~regen
    THEN [artifact |-> Embedded(existing.val), url |-> url]
    ELSE [artifact |-> Generated(devcontainer_json), url |-> None]

(***************************************************************************)
(* The steps of the run.                                                   *)
(***************************************************************************)
\* no call of generate_devcontainer_json through the single-request variables
FrameIdle ==
    /\ repo_url = ""
    /\ repo_context = <<>>
    /\ devcontainer_url = None
    /\ max_retries = 0
    /\ regenerate = FALSE
    /\ pc = "idle"
    /\ existing_devcontainer = None
    /\ prompt = None
    /\ attempt = 0
    /\ model = <<>>
    /\ provider = ""
    /\ response = None
    /\ result = None
    /\ error = None
    /\ inflight = None
    /\ calls = 0
    /\ last = None
    /\ validations = 0
    /\ rejected = 0
    /\ logged = None

GenIdle ==
    /\ env_LLM_PROVIDER = None
    /\ env_MODEL = None
    /\ instructor_client = None
    /\ FrameIdle

GenInit ==
    /\ env_LLM_PROVIDER \in EnvProviders
    /\ env_MODEL \in EnvModels
    /\ instructor_client = None
    /\ repo_url \in RepoUrls
    /\ repo_context \in RepoContexts
    /\ devcontainer_url \in DevcontainerUrls
    /\ max_retries \in (-1)..MaxRetries
    /\ regenerate \in BOOLEAN
    /\ pc = "setup"
    /\ existing_devcontainer = None
    /\ prompt = None
    /\ attempt = 0
    /\ model = <<>>
    /\ provider = ""
    /\ response = None
    /\ result = None
    /\ error = None
    /\ inflight = None
    /\ calls = 0
    /\ last = None
    /\ validations = 0
    /\ rejected = 0
    /\ logged = None

\* setup_instructor(llm_client)
SetupInstructor ==
    /\ pc = "setup"
    /\ \E patching \in Patchings :
          LET c == setup_instructor(get_provider(env_LLM_PROVIDER), patching)
          IN  /\ instructor_client' = c
              /\ pc' = IF c.none THEN "setup_failed" ELSE "start"
    /\ UNCHANGED <<unitVars, env_LLM_PROVIDER, env_MODEL, argVars,
                   existing_devcontainer, prompt, attempt, model, provider,
                   response, result, error, inflight, calls, last,
                   validations, rejected, logged>>

\* LoopNext over range(max_retries)
LoopNext_OffByOne(next_attempt) ==
    IF next_attempt < max_retries
    THEN /\ pc' = "invoke"
         /\ attempt' = next_attempt
         /\ UNCHANGED error
    ELSE /\ pc' = "raised"
         /\ error' = Some(Exc("ValueError", LOOP_END_MSG))
         /\ UNCHANGED attempt

\* LoopNext over range(max_retries + 2)
LoopNext_OneMore(next_attempt) ==
    IF next_attempt < max_retries + 2
    THEN /\ pc' = "invoke"
         /\ attempt' = next_attempt
         /\ UNCHANGED error
    ELSE /\ pc' = "raised"
         /\ error' = Some(Exc("ValueError", LOOP_END_MSG))
         /\ UNCHANGED attempt

\* LoopNext that passes over an attempt
LoopNext_Skips(next_attempt) ==
    IF next_attempt < max_retries
    THEN /\ pc' = "invoke"
         /\ attempt' = next_attempt + 1
         /\ UNCHANGED error
    ELSE /\ pc' = "raised"
         /\ error' = Some(Exc("ValueError", LOOP_END_MSG))
         /\ UNCHANGED attempt

\* the for statement takes the next value of range(max_retries + 1), or the
\* loop ends and line 175 raises
LoopNext(next_attempt) ==
    IF next_attempt < max_retries + 1
    THEN /\ pc' = "invoke"
         /\ attempt' = next_attempt
         /\ UNCHANGED error
    ELSE /\ pc' = "raised"
         /\ error' = Some(Exc("ValueError", LOOP_END_MSG))
         /\ UNCHANGED attempt

\* OuterExcept without lines 172-173
OuterExcept_Swallows(e) == LoopNext(attempt + 1)

\* lines 170-173: the handler of the attempt's try statement
OuterExcept(e) ==
    IF LastAttempt(attempt, max_retries)
    THEN /\ pc' = "raised"
         /\ error' = Some(e)
         /\ UNCHANGED attempt
    ELSE LoopNext(attempt + 1)

\* lines 65-90: up to the first iteration of the loop
Start ==
    /\ pc = "start"
    /\ existing_devcontainer' = ExtractExisting(repo_context)
    /\ IF ShortCircuit(repo_context, regenerate, devcontainer_url)
       THEN /\ pc' = "returned"
            /\ result' = Some([artifact |-> Embedded(existing_devcontainer'.val),
                               url |-> devcontainer_url])
            /\ UNCHANGED <<prompt, attempt, error>>
       ELSE /\ prompt' = Some(process_template(repo_url,
                                 truncate_context(repo_context, MAX_CONTEXT_TOKENS),
                                 existing_devcontainer'))
            /\ LoopNext(0)
            /\ UNCHANGED result
    /\ UNCHANGED <<unitVars, envVars, argVars, model, provider, response,
                   inflight, calls, last, validations, rejected, logged>>

\* lines 92-111: the attempt issues its call
Invoke ==
    /\ pc = "invoke"
    /\ model' = SelectModel(env_LLM_PROVIDER, env_MODEL)
    /\ provider' = get_provider(env_LLM_PROVIDER)
    /\ calls' = calls + 1
    /\ inflight' = Some(FirstCall(instructor_client.val, model', prompt.val, calls'))
    /\ pc' = "await_call"
    /\ UNCHANGED <<unitVars, envVars, argVars, existing_devcontainer, prompt,
                   attempt, response, result, error, last, validations,
                   rejected, logged>>

\* lines 119, 171, 193-195: what the failed attempt writes to the log
Diagnostic(kind, texts) == [kind |-> kind, texts |-> texts]

Completed(call, a, e) == [call |-> call, attempt |-> a, error |-> e]

\* the call returns an object: line 148 is next
CallReturns(doc) ==
    /\ pc \in { "await_call", "await_fallback" }
    /\ response' = Some([call |-> inflight.val.serial, doc |-> doc])
    /\ last' = Some(Completed(inflight.val, attempt, NoExc))
    /\ inflight' = None
    /\ pc' = "validate"
    /\ UNCHANGED <<unitVars, envVars, argVars, existing_devcontainer, prompt,
                   attempt, model, provider, result, error, calls,
                   validations, rejected, logged>>

\* lines 112-146: the first call of the attempt raises e
CallRaises(e) ==
    /\ pc = "await_call"
    /\ last' = Some(Completed(inflight.val, attempt, e))
    /\ logged' = Some(Diagnostic("invocation", <<e.msg>>))
    /\ LET kind == Classify(e)
       IN  CASE kind = "tool" ->
                  /\ IF ToolRetry(attempt, max_retries)
                     THEN LoopNext(attempt + 1)
                     ELSE OuterExcept(Exc("ValueError", TOOL_FAILED_MSG))
                  /\ inflight' = None
                  /\ UNCHANGED calls
             [] kind = "temperature" ->
                  /\ calls' = calls + 1
                  /\ inflight' = Some(SecondCall(instructor_client.val, model,
                                                 prompt.val, calls'))
                  /\ pc' = "await_fallback"
                  /\ UNCHANGED <<attempt, error>>
             [] OTHER ->
                  /\ OuterExcept(e)
                  /\ inflight' = None
                  /\ UNCHANGED calls
    /\ UNCHANGED <<unitVars, envVars, argVars, existing_devcontainer, prompt,
                   model, provider, response, result, validations, rejected>>

\* the call of lines 136-144 raises e, inside the handler of the first
FallbackRaises(e) ==
    /\ pc = "await_fallback"
    /\ last' = Some(Completed(inflight.val, attempt, e))
    /\ logged' = Some(Diagnostic("invocation", <<e.msg>>))
    /\ inflight' = None
    /\ OuterExcept(e)
    /\ UNCHANGED <<unitVars, envVars, argVars, existing_devcontainer, prompt,
                   model, provider, response, result, calls, validations,
                   rejected>>

\* lines 148-169: dump, validate, return or go on
Validate(schema_readable) ==
    /\ pc = "validate"
    /\ validations' = validations + 1
    /\ LET devcontainer_json == dumps(response.val)
           v == validate_devcontainer_json(devcontainer_json, schema_readable)
       IN  IF ~v.raises.none
           THEN /\ OuterExcept(v.raises.val)
                /\ logged' = Some(Diagnostic("validator", <<v.raises.val.msg>>))
                /\ UNCHANGED <<result, rejected>>
           ELSE IF v.value
           THEN /\ pc' = "returned"
                /\ result' = Some(AcceptResult(existing_devcontainer, regenerate,
                                               devcontainer_url,
                                               devcontainer_json))
                /\ UNCHANGED <<attempt, error, rejected, logged>>
           ELSE /\ rejected' = rejected + 1
                /\ logged' = Some(Diagnostic("validation",
                                     <<devcontainer_json.violation.val.path,
                                       devcontainer_json.violation.val.message>>))
                /\ IF ValidationExhausted(attempt, max_retries)
                   THEN OuterExcept(Exc("ValueError", VALIDATION_FAILED_MSG))
                   ELSE LoopNext(attempt + 1)
                /\ UNCHANGED result
    /\ UNCHANGED <<unitVars, envVars, argVars, existing_devcontainer, prompt,
                   model, provider, response, inflight, calls, last>>

(***************************************************************************)
(* save_devcontainer (helpers/devcontainer_helpers.py, lines 209-215) and  *)
(* the table it inserts into.  The storage client is outside the sources:  *)
(* execute() returns a response whose data is a list of rows, possibly     *)
(* empty, or raises.                                                       *)
(***************************************************************************)
\* new_devcontainer.dict()
Records ==
    [ devcontainer_json : { "generated", "embedded" },
      url : { "https://github.com/o/r", "https://github.com/o/s" },
      generated : BOOLEAN ]

StorageErrors ==
    { Exc("APIError", <<"duplicate key">>),
      Exc("ConnectError", <<"connection refused">>),
      Exc("ReadTimeout", <<"timed out">>) }

\* execute(): the response, or the exception
ExecuteResponse(rows) == [raises |-> None, data |-> rows]
ExecuteRaises(e) == [raises |-> Some(e), data |-> <<>>]

\* the row of the table for a record
Row(record, id) == [id |-> id, record |-> record]

ExecuteOutcomes ==
    { ExecuteResponse(<<>>) }
    \cup { ExecuteResponse(<<Row(r, id)>>) : r \in Records, id \in 1..MaxSaves }
    \cup { ExecuteRaises(e) : e \in StorageErrors }

\* save_devcontainer that raises an error of its own
save_devcontainer_Wraps(new_devcontainer, outcome) ==
    IF ~outcome.raises.none
    THEN [raises |-> Some(Exc("RuntimeError", <<"save failed">>)),
          value |-> None]
    ELSE [raises |-> None,
          value |-> IF outcome.data # <<>>
                    THEN Some(outcome.data[1]) ELSE None]

\* lines 210-215, given what the insert's execute() did
save_devcontainer(new_devcontainer, outcome) ==
    IF ~outcome.raises.none
    THEN [raises |-> outcome.raises, value |-> None]
    ELSE [raises |-> None,
          value |-> IF outcome.data # <<>>
                    THEN Some(outcome.data[1]) ELSE None]

SvIdle ==
    /\ sv_pc = "idle"
    /\ sv_record = None
    /\ sv_ops = <<>>
    /\ sv_outcome = None
    /\ sv_result = None
    /\ sv_error = None
    /\ sv_saves = 0

SvInit ==
    /\ sv_pc = "ready"
    /\ sv_record \in { Some(r) : r \in Records }
    /\ sv_ops = <<>>
    /\ sv_outcome = None
    /\ sv_result = None
    /\ sv_error = None
    /\ sv_saves = 1

\* line 211: the insert is issued
SaveInsert ==
    /\ sv_pc = "ready"
    /\ sv_ops' = Append(sv_ops, [op |-> "insert", table |-> "devcontainers",
                                 row |-> sv_record.val])
    /\ sv_pc' = "inserting"
    /\ UNCHANGED <<sv_record, sv_outcome, sv_result, sv_error, sv_saves>>

\* lines 211-215: execute() completes and the function returns or raises
SaveCompletes(outcome) ==
    /\ sv_pc = "inserting"
    /\ outcome.data # <<>>
         => /\ outcome.data[1].record = sv_record.val
            /\ outcome.data[1].id = sv_saves
    /\ sv_outcome' = Some(outcome)
    /\ LET out == save_devcontainer(sv_record.val, outcome)
       IN  IF ~out.raises.none
           THEN /\ sv_pc' = "raised"
                /\ sv_error' = out.raises
                /\ UNCHANGED sv_result
           ELSE /\ sv_pc' = "returned"
                /\ sv_result' = out.value
                /\ UNCHANGED sv_error
    /\ UNCHANGED <<sv_record, sv_ops, sv_saves>>

\* the caller calls save_devcontainer again
SaveAgain(record) ==
    /\ sv_pc \in { "returned", "raised" }
    /\ sv_saves < MaxSaves
    /\ sv_saves' = sv_saves + 1
    /\ sv_record' = Some(record)
    /\ sv_ops' = <<>>
    /\ sv_outcome' = None
    /\ sv_result' = None
    /\ sv_error' = None
    /\ sv_pc' = "ready"

(***************************************************************************)
(* generate_devcontainer_json called by several requests of one host       *)
(* process.  A frame holds the arguments and the local variables of one    *)
(* call; the environment and the structured client are the process's.      *)
(* The schema file is readable here.                                       *)
(***************************************************************************)
RequestIds == { "r1", "r2" }

\* what a provider call of a request can do
CallOutcomes ==
    { [returns |-> Some(doc), raises |-> NoExc] : doc \in Docs }
    \cup { [returns |-> None, raises |-> e] :
             e \in { ERR_TOOL_TEXT, ERR_TEMPERATURE } }

\* the frame at the call: arguments bound, locals unset
NewFrame(url, context, dc_url, retries, regen) ==
    [repo_url |-> url, repo_context |-> context, devcontainer_url |-> dc_url,
     max_retries |-> retries, regenerate |-> regen,
     pc |-> "start", existing_devcontainer |-> None, prompt |-> None,
     attempt |-> 0, model |-> <<>>, provider |-> "", response |-> None,
     result |-> None, error |-> None, inflight |-> None, calls |-> 0]

\* FrameLoopNext that takes the attempt number from a counter of the process
FrameLoopNext_SharedCounter(f, next_attempt) ==
    LET others == { requests[r].attempt : r \in DOMAIN requests }
        shared == CHOOSE n \in others : \A k \in others : k <= n
    IN  IF Max(next_attempt, shared) < f.max_retries + 1
        THEN [f EXCEPT !.pc = "invoke",
                       !.attempt = Max(next_attempt, shared)]
        ELSE [f EXCEPT !.pc = "raised",
                       !.error = Some(Exc("ValueError", LOOP_END_MSG))]

\* lines 90 and 175 on a frame
FrameLoopNext(f, next_attempt) ==
    IF next_attempt < f.max_retries + 1
    THEN [f EXCEPT !.pc = "invoke", !.attempt = next_attempt]
    ELSE [f EXCEPT !.pc = "raised",
                   !.error = Some(Exc("ValueError", LOOP_END_MSG))]

\* lines 170-173 on a frame
FrameOuterExcept(f, e) ==
    IF LastAttempt(f.attempt, f.max_retries)
    THEN [f EXCEPT !.pc = "raised", !.error = Some(e)]
    ELSE FrameLoopNext(f, f.attempt + 1)

\* lines 65-90 on a frame
FrameStart(f) ==
    LET existing == ExtractExisting(f.repo_context)
    IN  IF ShortCircuit(f.repo_context, f.regenerate, f.devcontainer_url)
        THEN [f EXCEPT !.existing_devcontainer = existing,
                       !.pc = "returned",
                       !.result = Some([artifact |-> Embedded(existing.val),
                                        url |-> f.devcontainer_url])]
        ELSE FrameLoopNext(
               [f EXCEPT !.existing_devcontainer = existing,
                         !.prompt = Some(process_template(f.repo_url,
                                          truncate_context(f.repo_context,
                                                           MAX_CONTEXT_TOKENS),
                                          existing))],
               0)

\* lines 92-111 on a frame: the environment and the client are read
FrameInvoke(f) ==
    LET m == SelectModel(env_LLM_PROVIDER, env_MODEL)
    IN  [f EXCEPT !.model = m,
                  !.provider = get_provider(env_LLM_PROVIDER),
                  !.calls = f.calls + 1,
                  !.inflight = Some(FirstCall(instructor_client.val, m,
                                              f.prompt.val, f.calls + 1)),
                  !.pc = "await_call"]

\* a call of the frame returns an object
FrameReturns(f, doc) ==
    [f EXCEPT !.response = Some([call |-> f.inflight.val.serial, doc |-> doc]),
              !.inflight = None,
              !.pc = "validate"]

\* lines 112-146 on a frame: the first call of the attempt raises e
FrameRaises(f, e) ==
    LET kind == Classify(e)
        done == [f EXCEPT !.inflight = None]
    IN  CASE kind = "tool" ->
               IF ToolRetry(f.attempt, f.max_retries)
               THEN FrameLoopNext(done, f.attempt + 1)
               ELSE FrameOuterExcept(done, Exc("ValueError", TOOL_FAILED_MSG))
          [] kind = "temperature" ->
               [f EXCEPT !.calls = f.calls + 1,
                         !.inflight = Some(SecondCall(instructor_client.val,
                                                      f.model, f.prompt.val,
                                                      f.calls + 1)),
                         !.pc = "await_fallback"]
          [] OTHER -> FrameOuterExcept(done, e)

\* lines 136-146 on a frame: the call without temperature raises e
FrameFallbackRaises(f, e) ==
    FrameOuterExcept([f EXCEPT !.inflight = None], e)

\* lines 148-169 on a frame
FrameValidate(f) ==
    LET devcontainer_json == dumps(f.response.val)
        v == validate_devcontainer_json(devcontainer_json, TRUE)
    IN  IF v.value
        THEN [f EXCEPT !.pc = "returned",
                       !.result = Some(AcceptResult(f.existing_devcontainer,
                                                    f.regenerate,
                                                    f.devcontainer_url,
                                                    devcontainer_json))]
        ELSE IF ValidationExhausted(f.attempt, f.max_retries)
        THEN FrameOuterExcept(f, Exc("ValueError", VALIDATION_FAILED_MSG))
        ELSE FrameLoopNext(f, f.attempt + 1)

\* the frame takes the outcome of the call it waits for
FrameDeliver(f, outcome) ==
    IF ~outcome.returns.none
    THEN FrameReturns(f, outcome.returns.val)
    ELSE IF f.pc = "await_call"
    THEN FrameRaises(f, outcome.raises)
    ELSE FrameFallbackRaises(f, outcome.raises)

RECURSIVE FrameRun(_)
\* the frame run on its own up to its next provider call or its end
FrameRun(f) ==
    CASE f.pc = "start" -> FrameRun(FrameStart(f))
      [] f.pc = "invoke" -> FrameRun(FrameInvoke(f))
      [] f.pc = "validate" -> FrameRun(FrameValidate(f))
      [] OTHER -> f

RECURSIVE Replay(_, _)
\* the call run sequentially and alone on the given provider outcomes
Replay(f, outcomes) ==
    IF outcomes = <<>>
    THEN FrameRun(f)
    ELSE Replay(FrameDeliver(FrameRun(f), Head(outcomes)), Tail(outcomes))

RqIdle ==
    /\ requests = <<>>
    /\ received = <<>>

RqInit ==
    /\ requests \in
         { [r \in RequestIds |->
              NewFrame("https://github.com/acme/app",
                       IF r = "r1" THEN CTX_PLAIN ELSE CTX_EXISTING,
                       None, retries[r], TRUE)] :
           retries \in [RequestIds -> 0..MaxConcurrentRetries] }
    /\ received = [r \in RequestIds |-> <<>>]

\* the environment and the client the requests of the process share
SharedInit ==
    /\ env_LLM_PROVIDER \in EnvProviders
    /\ env_MODEL \in EnvModels
    /\ instructor_client = setup_instructor(get_provider(env_LLM_PROVIDER), "ok")
    /\ FrameIdle

\* request r runs lines 65-90
RqStart(r) ==
    /\ requests[r].pc = "start"
    /\ requests' = [requests EXCEPT ![r] = FrameStart(@)]
    /\ UNCHANGED received

\* request r issues the call of its attempt
RqInvoke(r) ==
    /\ requests[r].pc = "invoke"
    /\ requests' = [requests EXCEPT ![r] = FrameInvoke(@)]
    /\ UNCHANGED received

\* the call request r waits for returns or raises
RqCallCompletes(r, outcome) ==
    /\ requests[r].pc \in { "await_call", "await_fallback" }
    /\ requests' = [requests EXCEPT ![r] = FrameDeliver(@, outcome)]
    /\ received' = [received EXCEPT ![r] = Append(@, outcome)]

\* request r validates the object its call returned
RqValidate(r) ==
    /\ requests[r].pc = "validate"
    /\ requests' = [requests EXCEPT ![r] = FrameValidate(@)]
    /\ UNCHANGED received

\* the host process changes LLM_PROVIDER or MODEL between two attempts of
\* the request; the structured client stays the one that was built
EnvChanges ==
    /\ pc = "invoke"
    /\ calls > 0
    /\ env_LLM_PROVIDER' \in EnvProviders
    /\ env_MODEL' \in EnvModels
    /\ <<env_LLM_PROVIDER', env_MODEL'>> # <<env_LLM_PROVIDER, env_MODEL>>
    /\ UNCHANGED <<unitVars, instructor_client, argVars, genVars>>

Init == TcIdle /\ PmIdle /\ SvIdle /\ RqIdle /\ GenInit

Next ==
    \/ SetupInstructor
    \/ Start
    \/ Invoke
    \/ \E doc \in Docs : CallReturns(doc)
    \/ \E e \in ProviderErrors : CallRaises(e)
    \/ \E e \in ProviderErrors : FallbackRaises(e)
    \/ \E readable \in BOOLEAN : Validate(readable)

Spec == Init /\ [][Next]_vars

InitTrunc == TcInit /\ PmIdle /\ SvIdle /\ RqIdle /\ GenIdle

NextTrunc ==
    TruncateContext /\ UNCHANGED <<pmVars, svVars, rqVars, envVars, argVars, genVars>>
SpecTrunc == InitTrunc /\ [][NextTrunc]_vars

InitProvider == TcIdle /\ PmInit /\ SvIdle /\ RqIdle /\ GenIdle
NextProvider ==
    /\ \/ GetProvider
       \/ GetDefaultModel
       \/ \E prov \in SUPPORTED_PROVIDERS \cup { "Mistral" } :
             ValidateModel(prov)
    /\ UNCHANGED <<tcVars, svVars, rqVars, envVars, argVars, genVars>>
SpecProvider == InitProvider /\ [][NextProvider]_vars

InitSave == TcIdle /\ PmIdle /\ SvInit /\ RqIdle /\ GenIdle
NextSave ==
    /\ \/ SaveInsert
       \/ \E outcome \in ExecuteOutcomes : SaveCompletes(outcome)
       \/ \E record \in Records : SaveAgain(record)
    /\ UNCHANGED <<tcVars, pmVars, rqVars, envVars, argVars, genVars>>
SpecSave == InitSave /\ [][NextSave]_vars

\* every statement runs to its end and every provider call returns or raises
FairSpec == Spec /\ WF_vars(Next)

NextEnv == Next \/ EnvChanges
SpecEnv == Init /\ [][NextEnv]_vars

InitConcurrent == TcIdle /\ PmIdle /\ SvIdle /\ RqInit /\ SharedInit
NextConcurrent ==
    /\ \E r \in RequestIds :
          \/ RqStart(r)
          \/ RqInvoke(r)
          \/ \E outcome \in CallOutcomes : RqCallCompletes(r, outcome)
          \/ RqValidate(r)
    /\ UNCHANGED <<tcVars, pmVars, svVars, envVars, argVars, genVars>>
SpecConcurrent == InitConcurrent /\ [][NextConcurrent]_vars

(***************************************************************************)
(* Properties of generate_devcontainer_json.                               *)
(***************************************************************************)
\* the request is past lines 65-75 and has rendered its prompt
Generating == ~prompt.none

\* C1: when the context embeds an existing artifact, regenerate is false and
\* a prior artifact URL is supplied, the call returns the embedded artifact
\* with exactly that URL, and no provider call and no validation is made.
C1_ShortCircuit ==
    ( /\ pc \notin { "idle", "setup", "setup_failed", "start" }
      /\ Contains(EXISTING_START, repo_context)
      /\ ~regenerate
      /\ ~devcontainer_url.none )
    => /\ pc = "returned"
       /\ result.val.artifact.kind = "embedded"
       /\ result.val.artifact.text = existing_devcontainer.val
       /\ repo_context = CTX_EXISTING
            => result.val.artifact.text = <<"{", "x", "}">>
       /\ repo_context = CTX_EMPTY_EXISTING
            => result.val.artifact.text = <<>>
       /\ repo_context = CTX_UNCLOSED
            => result.val.artifact.text = <<"{", "y", "}">>
       /\ result.val.url = devcontainer_url
       /\ calls = 0
       /\ validations = 0
       /\ inflight.none

C1_Witness ==
    /\ pc = "returned"
    /\ repo_context = CTX_EXISTING
    /\ ~regenerate
    /\ ~devcontainer_url.none
    /\ result.val.url = devcontainer_url
    /\ calls = 0

\* C2: for max_retries >= 0, a request whose every provider call returned an
\* object that the validator rejected never returns an artifact; it has
\* raised exactly when max_retries + 1 calls (one per attempt) have been
\* made, and goes on with the next attempt before that.
C2_AllRejected ==
    ( /\ Generating
      /\ max_retries >= 0
      /\ rejected = calls )
    => /\ pc \in { "invoke", "raised" }
       /\ calls <= max_retries + 1
       /\ (pc = "raised") <=> (calls = max_retries + 1)
       /\ pc = "raised" => attempt = max_retries
       /\ pc = "invoke" => attempt = calls
       /\ result.none

C2_Witness ==
    /\ pc = "raised"
    /\ max_retries = 2
    /\ rejected = 3
    /\ calls = 3
    /\ validations = 3

\* the request returned after a provider call whose object passed, every
\* earlier call having returned an object that was rejected
PassedAfterRejections ==
    /\ pc = "returned"
    /\ Generating
    /\ rejected = calls - 1

\* C3 as stated: if the first k calls are rejected and call k+1 passes, the
\* JSON of call k+1 is returned and exactly k+1 calls are made.
C3_Original ==
    PassedAfterRejections
    => /\ result.val.artifact = Generated(dumps(response.val))
       /\ response.val.call = calls
       /\ attempt = rejected
       /\ rejected <= max_retries
       /\ inflight.none

\* C3, amended: if the first k calls are rejected and call k+1 passes, exactly
\* k+1 calls are made, in k+1 attempts, and the JSON of call k+1 is returned,
\* unless a non-empty embedded artifact is present and regenerate is false:
\* then the embedded artifact is returned.
C3_Amended ==
    PassedAfterRejections
    => /\ response.val.call = calls
       /\ response.val.doc.violation.none
       /\ attempt = rejected
       /\ rejected <= max_retries
       /\ inflight.none
       /\ IF Truthy(existing_devcontainer, <<>>) /\ ~regenerate
          THEN result.val.artifact = Embedded(existing_devcontainer.val)
          ELSE /\ result.val.artifact = Generated(dumps(response.val))
               /\ result.val.artifact.json.call = calls

C3_Witness ==
    /\ PassedAfterRejections
    /\ rejected = 2
    /\ calls = 3
    /\ result.val.artifact.kind = "generated"
    /\ result.val.artifact.json.call = 3

\* C4 as stated: every return after a provider call returns the JSON that
\* passed validation in that attempt, with a null URL.
C4_Original ==
    (pc = "returned" /\ Generating)
    => /\ result.val.artifact = Generated(dumps(response.val))
       /\ result.val.url = None

\* C4, amended: every return after a provider call has a null URL; the
\* artifact is the JSON that passed validation in that attempt, unless a
\* non-empty embedded artifact is present and regenerate is false (the prior
\* URL is then null): then it is the embedded artifact.
C4_Amended ==
    (pc = "returned" /\ Generating)
    => /\ result.val.url = None
       /\ response.val.doc.violation.none
       /\ IF Truthy(existing_devcontainer, <<>>) /\ ~regenerate
          THEN /\ result.val.artifact = Embedded(existing_devcontainer.val)
               /\ devcontainer_url = None
          ELSE result.val.artifact = Generated(dumps(response.val))

C4_Witness ==
    /\ pc = "returned"
    /\ Generating
    /\ repo_context = CTX_EXISTING
    /\ regenerate
    /\ ~devcontainer_url.none
    /\ result.val.artifact.kind = "generated"
    /\ result.val.url = None

\* the error texts of ProviderErrors with a signature of line 122
ToolSignatureErrors == { ERR_TOOL_TEXT, ERR_TOOL_AND_TEMPERATURE }

\* the error texts of ProviderErrors with a signature of line 133 and none of
\* line 122
TemperatureSignatureErrors == { ERR_TEMPERATURE, ERR_NO_SUPPORT }

\* the exceptions of ProviderErrors that report a configuration error
ConfigurationErrors == { ERR_ATTRIBUTE, ERR_AUTH }

C6_Original ==
    (~last.none /\ last.val.error \in ConfigurationErrors)
    => /\ pc = "raised"
       /\ error = Some(last.val.error)
       /\ calls = last.val.call.serial

\* C7, states: while the last completed call is a first call that failed with
\* a temperature signature, the same attempt is waiting for one further call
\* with the same model, response schema and messages and no temperature; and
\* a call without temperature is in flight in no other case.
C7_State ==
    /\ ( /\ ~last.none
         /\ last.val.call.kind = "first"
         /\ last.val.error \in TemperatureSignatureErrors )
       => /\ pc = "await_fallback"
          /\ attempt = last.val.attempt
          /\ calls = last.val.call.serial + 1
          /\ inflight = Some([last.val.call EXCEPT !.serial = calls,
                                                   !.kind = "fallback",
                                                   !.temperature = "omitted"])
    /\ pc = "await_fallback"
       => /\ last.val.call.kind = "first"
          /\ last.val.call.temperature = "0.1"
          /\ last.val.error \in TemperatureSignatureErrors
    /\ (~inflight.none /\ inflight.val.temperature = "omitted")
       => pc = "await_fallback"

\* C7, steps: when the call without temperature returns an object, line 148
\* is next with that object, in the same attempt.
C7_Step ==
    (pc = "await_fallback" /\ last' # last /\ last'.val.error = NoExc)
    => /\ pc' = "validate"
       /\ attempt' = attempt
       /\ response'.val.call = inflight.val.serial
       /\ calls' = calls

\* C7: a first call that fails with a temperature signature is re-issued once
\* in the same attempt, with the same model, response schema and messages and
\* without temperature, and a result of that call is validated like a result
\* of a first call, in the same attempt.
C7_TemperatureFallback == []C7_State /\ [][C7_Step]_vars

C7_Witness ==
    /\ pc = "validate"
    /\ last.val.call.kind = "fallback"
    /\ last.val.call.temperature = "omitted"
    /\ last.val.error = NoExc
    /\ attempt = 1
    /\ calls = 3

C8_Step ==
    ( /\ pc \in { "await_call", "await_fallback" }
      /\ last' # last
      /\ last'.val.error \in ToolSignatureErrors )
    => IF attempt < max_retries
       THEN /\ pc' = "invoke"
            /\ attempt' = attempt + 1
            /\ calls' = calls
            /\ inflight'.none
            /\ error'.none
       ELSE /\ pc' = "raised"
            /\ attempt' = attempt
            /\ ~error'.none

\* C8: a provider call that fails with a text containing "tool_use_failed" or
\* "failed to call a function" (in any case) ends its attempt: the next
\* attempt starts when attempts remain, and the request fails when it was
\* attempt max_retries + 1.
C8_ToolFailureRetried == [][C8_Step]_vars

C8_Witness ==
    /\ pc = "invoke"
    /\ attempt = 1
    /\ ~last.none
    /\ last.val.attempt = 0
    /\ last.val.error = ERR_TOOL_TEXT
    /\ calls = 1

\* C9 as stated: with the Groq provider, a call in tool-calling mode that
\* fails with a tool-calling failure signature is retried in JSON mode, as
\* the same call.
C9_Original ==
    [][ ( /\ get_provider(env_LLM_PROVIDER) = "Groq"
          /\ pc = "await_call"
          /\ inflight.val.mode = "TOOLS"
          /\ last' # last
          /\ last'.val.error \in ToolSignatureErrors )
        => /\ ~inflight'.none
           /\ inflight'.val.mode = "JSON"
           /\ attempt' = attempt ]_vars

(***************************************************************************)
(* Properties of truncate_context.                                         *)
(***************************************************************************)
\* C10: a context whose token count is at most max_tokens is returned
\* unchanged, with or without the section markers.
C10_Identity ==
    (tc_pc = "done" /\ Len(encode(tc_context)) <= tc_max_tokens)
    => tc_result = tc_context

C10_Witness ==
    /\ tc_pc = "done"
    /\ Contains(LANGUAGES_END, tc_context)
    /\ Len(encode(tc_context)) = tc_max_tokens
    /\ Len(tc_context) > Len(LANGUAGES_END)
    /\ tc_result = tc_context

\* a truncation that ran on a context whose token count exceeds the budget
OverBudget ==
    /\ tc_pc = "done"
    /\ Len(encode(tc_context)) > tc_max_tokens

\* the text has the end marker of the Repository Languages section
HasMarker(text) == Contains(LANGUAGES_END, text)

\* the prefix of the text up to and including the first such marker
MarkerPrefix(text) ==
    SliceTo(text, Find(LANGUAGES_END, text) + Len(LANGUAGES_END))

\* C11: the truncation of an over-budget context has at most max_tokens
\* tokens, and when the prefix up to and including the Repository Languages
\* marker fits in the budget the output has that same prefix.
C11_Bounded ==
    OverBudget
    => /\ Len(encode(tc_result)) <= tc_max_tokens
       /\ ( /\ HasMarker(tc_context)
            /\ Len(encode(MarkerPrefix(tc_context))) <= tc_max_tokens )
          => /\ HasMarker(tc_result)
             /\ MarkerPrefix(tc_result) = MarkerPrefix(tc_context)

C11_Witness ==
    /\ OverBudget
    /\ HasMarker(tc_context)
    /\ Len(encode(MarkerPrefix(tc_context))) < tc_max_tokens - 1
    /\ Len(MarkerPrefix(tc_context)) > Len(LANGUAGES_END)
    /\ Len(tc_result) > Len(MarkerPrefix(tc_context)) + 2
    /\ Len(encode(tc_result)) = tc_max_tokens

\* C12: when the important content of an over-budget context has more than
\* max_tokens tokens, the result is exactly its first max_tokens tokens, a
\* prefix of the context that ends at or before the marker's end.
C12_HardCutoff ==
    ( /\ OverBudget
      /\ HasMarker(tc_context)
      /\ Len(encode(MarkerPrefix(tc_context) \o <<"\n", "\n">>))
            > tc_max_tokens )
    => /\ tc_result =
            decode(SliceTo(encode(MarkerPrefix(tc_context) \o <<"\n", "\n">>),
                           tc_max_tokens))
       /\ Len(tc_result) <= Len(MarkerPrefix(tc_context))
       /\ tc_result = SliceTo(tc_context, Len(tc_result))

C12_Witness ==
    /\ OverBudget
    /\ HasMarker(tc_context)
    /\ Len(encode(MarkerPrefix(tc_context))) > tc_max_tokens
    /\ Len(tc_context) > Len(MarkerPrefix(tc_context)) + 2
    /\ tc_max_tokens > 1
    /\ Len(encode(tc_result)) = tc_max_tokens

\* C13: the truncation of an over-budget context without the Repository
\* Languages marker completes, with a text of at most max_tokens tokens.
C13_NoMarker ==
    (tc_pc # "ready" /\ Len(encode(tc_context)) > tc_max_tokens
                    /\ ~HasMarker(tc_context))
    => /\ tc_pc = "done"
       /\ Len(encode(tc_result)) <= tc_max_tokens

C13_Witness ==
    /\ OverBudget
    /\ ~HasMarker(tc_context)
    /\ tc_max_tokens > 1
    /\ Len(encode(tc_result)) = tc_max_tokens
    /\ tc_result # <<>>

\* the setting names a supported provider
Supported(setting) == ~setting.none /\ setting.val \in SUPPORTED_PROVIDERS

\* C14: get_provider returns a supported provider for every LLM_PROVIDER
\* setting: the setting itself when it is a supported name, AzureOpenAI for
\* every other setting (unset, empty, wrong case, unknown).
C14_Total ==
    ~pm_provider.none
    => /\ pm_provider.val \in
            { "AzureOpenAI", "OpenAI", "Anthropic", "Google", "Groq" }
       /\ Supported(pm_LLM_PROVIDER)
            => pm_provider.val = pm_LLM_PROVIDER.val
       /\ ~Supported(pm_LLM_PROVIDER) => pm_provider.val = "AzureOpenAI"

C14_Witness ==
    /\ pm_provider = Some("AzureOpenAI")
    /\ pm_LLM_PROVIDER = Some("openai")

\* the MODEL setting is a non-empty text that validate_model_for_provider
\* accepts for the resolved provider
Accepted ==
    /\ Truthy(pm_MODEL, <<>>)
    /\ validate_model_for_provider(pm_MODEL.val,
                                   get_provider(pm_LLM_PROVIDER)).is_valid

\* the fixed default model of each provider
FixedDefault(prov) ==
    CASE prov \in { "AzureOpenAI", "OpenAI" } -> MODEL_NAMES.gpt_4o_mini
      [] prov = "Anthropic" -> MODEL_NAMES.claude_3_5_sonnet_20241022
      [] prov = "Google" -> MODEL_NAMES.gemini_1_5_pro
      [] prov = "Groq" -> MODEL_NAMES.llama_3_3_70b_versatile

\* C15: get_default_model returns MODEL when MODEL is set, non-empty and
\* accepted for the resolved provider, and the provider's fixed default
\* model when MODEL is unset, empty or rejected.
C15_DefaultModel ==
    ~pm_default_model.none
    => pm_default_model.val =
         IF Accepted
         THEN pm_MODEL.val
         ELSE FixedDefault(get_provider(pm_LLM_PROVIDER))

C15_Witness ==
    /\ ~pm_default_model.none
    /\ pm_LLM_PROVIDER = Some("Anthropic")
    /\ pm_MODEL = Some(MODEL_NAMES.gpt_4o)
    /\ pm_default_model.val = MODEL_NAMES.claude_3_5_sonnet_20241022

\* the text is an entry of the provider's list of known models
IsEntry(text, prov) ==
    \E i \in 1..Len(valid_models(prov)) : valid_models(prov)[i] = text

\* the text neither contains nor is contained in an entry of that list
Unrelated(text, prov) ==
    \A i \in 1..Len(valid_models(prov)) :
        /\ ~Contains(valid_models(prov)[i], text)
        /\ ~Contains(text, valid_models(prov)[i])

\* C16: for a supported provider, validate_model_for_provider accepts with
\* an empty message a model equal to an entry of the provider's list, and
\* rejects with a non-empty message a text unrelated to every entry.
C16_Validate ==
    (~pm_validation.none /\ pm_validation.val.provider \in SUPPORTED_PROVIDERS)
    => LET v == pm_validation.val
       IN  /\ IsEntry(v.model, v.provider)
                => v.out = [is_valid |-> TRUE, error_message |-> <<>>]
           /\ Unrelated(v.model, v.provider)
                => /\ v.out.is_valid = FALSE
                   /\ v.out.error_message # <<>>

C16_Witness ==
    /\ ~pm_validation.none
    /\ pm_validation.val.provider = "OpenAI"
    /\ pm_validation.val.model = MODEL_NAMES.claude_3_opus_20240229
    /\ pm_validation.val.out.is_valid = FALSE

\* C17: no call of validate_devcontainer_json ends with an exception: every
\* failed attempt that reached the validator is a returned verdict.
C17_Original ==
    /\ (~logged.none) => logged.val.kind # "validator"
    /\ (pc = "raised" /\ validations > 0 /\ last.val.error = NoExc)
          => error.val = Exc("ValueError", VALIDATION_FAILED_MSG)

\* a call of save_devcontainer has ended
Saved == sv_pc \in { "returned", "raised" }

\* C18: a call of save_devcontainer issues exactly one insert and no other
\* operation, and ends by returning the persisted record or by raising the
\* storage error itself.
C18_Original ==
    Saved
    => /\ Len(sv_ops) = 1
       /\ sv_ops[1].op = "insert"
       /\ sv_pc = "returned"
            => sv_result = Some(Row(sv_record.val, sv_saves))
       /\ sv_pc = "raised" => sv_error = sv_outcome.val.raises

\* C18, amended: as above, and the value returned is the first row of the
\* response, or the null value when the response has no rows.
C18_Amended ==
    Saved
    => /\ Len(sv_ops) = 1
       /\ sv_ops[1].op = "insert"
       /\ sv_ops[1].row = sv_record.val
       /\ sv_pc = "returned"
            => /\ sv_outcome.val.raises.none
               /\ sv_result = IF sv_outcome.val.data = <<>>
                               THEN None
                               ELSE Some(Row(sv_record.val, sv_saves))
       /\ sv_pc = "raised"
            => /\ ~sv_outcome.val.raises.none
               /\ sv_error = sv_outcome.val.raises

C18_Witness ==
    /\ sv_pc = "raised"
    /\ sv_saves = 2
    /\ sv_error = Some(Exc("APIError", <<"duplicate key">>))
    /\ Len(sv_ops) = 1

\* the request is waiting for a provider call
Awaiting == pc \in { "await_call", "await_fallback" }

\* the last attempt that issued a call has ended: its last call failed, or
\* the validator has finished with the object its call returned
AttemptEnded ==
    /\ inflight.none
    /\ ~last.none
    /\ ~logged.none
    /\ \/ last.val.error # NoExc /\ logged.val.kind = "invocation"
       \/ /\ last.val.error = NoExc
          /\ validations > 0
          /\ logged.val.kind \in { "validation", "validator" }

C19_State ==
    /\ ~inflight.none <=> Awaiting
    /\ pc = "validate"
         => /\ inflight.none
            /\ last.val.error = NoExc
            /\ last.val.attempt = attempt
            /\ response.val.call = last.val.call.serial

C19_Step ==
    /\ calls' # calls
         => /\ calls' = calls + 1
            /\ ~inflight'.none
            /\ inflight'.val.serial = calls'
            /\ \/ inflight.none
               \/ /\ last' # last
                  /\ last'.val.call = inflight.val
                  /\ last'.val.error # NoExc
    /\ (pc # "validate" /\ pc' = "validate")
         => /\ ~inflight.none
            /\ last'.val.call = inflight.val
    /\ (pc = "invoke" /\ pc' = "await_call" /\ attempt > 0)
         => /\ AttemptEnded
            /\ last.val.attempt = attempt - 1
    /\ (pc = "invoke" /\ pc' = "await_call" /\ attempt = 0)
         => calls = 0

\* C19: one provider call at most is in flight; validation of an attempt
\* starts when that attempt's call has returned; the call of attempt n+1
\* is issued only after attempt n has ended.
C19_Sequential == []C19_State /\ [][C19_Step]_vars

C19_Witness ==
    /\ pc = "await_call"
    /\ attempt = 2
    /\ calls = 4
    /\ rejected = 1
    /\ last.val.attempt = 1
    /\ last.val.error # NoExc

\* the arguments a request was called with
Arguments(f) ==
    NewFrame(f.repo_url, f.repo_context, f.devcontainer_url, f.max_retries,
             f.regenerate)

\* C20: under every interleaving of the requests, each request is where its
\* own call, run alone on its own arguments and on the provider outcomes it
\* received, would be: attempt counter, prompt, candidate, result and error.
C20_RequestLocal ==
    \A r \in DOMAIN requests :
        FrameRun(requests[r]) = Replay(Arguments(requests[r]), received[r])

C20_Witness ==
    /\ DOMAIN requests = RequestIds
    /\ requests["r1"].pc = "raised"
    /\ requests["r1"].attempt = 1
    /\ requests["r2"].pc = "returned"
    /\ requests["r2"].attempt = 0
    /\ requests["r2"].max_retries = 1
    /\ Len(received["r1"]) = 3
    /\ Len(received["r2"]) = 1

\* the MODEL setting is a non-empty text that validate_model_for_provider
\* rejects for the resolved provider
RejectedOverride ==
    /\ Truthy(env_MODEL, <<>>)
    /\ ~validate_model_for_provider(env_MODEL.val,
                                    get_provider(env_LLM_PROVIDER)).is_valid

\* C21: a provider call never carries a MODEL setting that is rejected for
\* the resolved provider; it carries the provider's default model instead.
C21_Original ==
    (~inflight.none /\ RejectedOverride)
    => /\ inflight.val.model # env_MODEL.val
       /\ inflight.val.model = defaults(get_provider(env_LLM_PROVIDER))

\* the prompt of the request: the template rendered on the context
\* truncated to 126,000 tokens
RenderedPrompt ==
    [template |-> "prompts/devcontainer.jinja",
     repo_url |-> repo_url,
     repo_context |-> truncate_context(repo_context, 126000),
     existing_devcontainer |-> ExtractExisting(repo_context)]

\* the messages of a call are the system instruction and the prompt
CarriesPrompt(call) ==
    /\ Len(call.messages) = 2
    /\ call.messages[1] = [role |-> "system", content |-> SYSTEM_INSTRUCTION]
    /\ call.messages[2] = [role |-> "user", content |-> RenderedPrompt]

C22_State ==
    /\ ~prompt.none => prompt.val = RenderedPrompt
    /\ ~inflight.none => CarriesPrompt(inflight.val)
    /\ ~last.none => CarriesPrompt(last.val.call)

C22_Step ==
    prompt' # prompt => (pc = "start" /\ prompt.none /\ calls = 0)

\* C22: the prompt is rendered once, before the first attempt, from the
\* context truncated to 126,000 tokens, and every provider call of the
\* request, fallback calls included, carries the same system instruction
\* and that same prompt.
C22_PromptUnchanged == []C22_State /\ [][C22_Step]_vars

C22_Witness ==
    /\ ~inflight.none
    /\ inflight.val.kind = "fallback"
    /\ attempt = 2
    /\ ~last.none
    /\ last.val.call.messages = inflight.val.messages
    /\ CarriesPrompt(inflight.val)

C23_Step ==
    (calls > 0 /\ calls' > calls)
    => /\ model' = model
       /\ provider' = provider
       /\ inflight'.val.model = last'.val.call.model

\* C23: every provider call of a request is made with the provider name
\* and the model identifier of its first call, whatever happens to the
\* LLM_PROVIDER and MODEL settings between the attempts.
C23_Original == [][C23_Step]_vars

\* the largest number of provider calls of a request
CallBudget == IF max_retries < 0 THEN 0 ELSE 2 * (max_retries + 1)

C24_State ==
    /\ calls <= CallBudget
    /\ calls <= 2 * attempt + 2
    /\ ~inflight.none
         => /\ inflight.val.serial = calls
            /\ inflight.val.kind = "fallback"
                 => /\ pc = "await_fallback"
                    /\ last.val.call.kind = "first"
                    /\ last.val.call.serial = calls - 1
                    /\ last.val.attempt = attempt

C24_Step ==
    /\ calls' \in { calls, calls + 1 }
    /\ (calls' = calls + 1 /\ inflight'.val.kind = "first")
         => (calls = 0 \/ last.val.attempt < attempt')
    /\ pc = "await_fallback" => pc' # "await_fallback"

\* C24: an attempt makes one call with temperature and at most one
\* fallback call after it, a fallback call is not followed by another one
\* in its attempt, and a request makes at most 2 * (max_retries + 1) calls.
C24_CallBudget == []C24_State /\ [][C24_Step]_vars

C24_Witness ==
    /\ max_retries = 2
    /\ calls = 6
    /\ pc = "raised"
    /\ last.val.call.kind = "fallback"

\* the step in which the fallback call of the attempt fails
FallbackFails ==
    /\ pc = "await_fallback"
    /\ last' # last
    /\ last'.val.error # NoExc

C25_Step ==
    /\ FallbackFails
         => /\ last'.val.call = inflight.val
            /\ inflight'.none
            /\ calls' = calls
            /\ IF attempt < max_retries
               THEN /\ pc' = "invoke"
                    /\ attempt' = attempt + 1
                    /\ error' = None
               ELSE /\ pc' = "raised"
                    /\ error' = Some(last'.val.error)
    /\ (pc = "invoke" /\ pc' # "invoke")
         => /\ pc' = "await_call"
            /\ inflight'.val.kind = "first"
            /\ inflight'.val.temperature = "0.1"

\* C25: a failure of the fallback call ends the attempt: the next attempt
\* starts if one remains, otherwise that error is raised to the caller; and
\* every attempt starts with a call that sets temperature=0.1, also after
\* an attempt that fell back.
C25_FallbackFailure == [][C25_Step]_vars

C25_Witness ==
    /\ pc = "await_call"
    /\ attempt = 1
    /\ inflight.val.temperature = "0.1"
    /\ last.val.call.kind = "fallback"
    /\ last.val.call.temperature = "omitted"
    /\ last.val.error = ERR_TOOL_TEXT
    /\ last.val.attempt = 0

\* the call of generate_devcontainer_json has returned or raised
Terminal == pc \in { "returned", "raised" }

\* the error of line 175, after the loop
TrailingRaise ==
    /\ pc = "raised"
    /\ error = Some(Exc("ValueError", LOOP_END_MSG))

C26_State ==
    /\ attempt <= Max(max_retries, 0)
    /\ pc = "returned" => (~result.none /\ error.none)
    /\ pc = "raised" => (~error.none /\ result.none)
    /\ TrailingRaise => (max_retries < 0 /\ calls = 0 /\ validations = 0)
    /\ (pc = "raised" /\ max_retries < 0) => TrailingRaise
    /\ (Terminal /\ max_retries >= 0 /\ calls > 0)
         => last.val.attempt = attempt

\* C26: when every provider call returns or raises, the request ends by
\* returning or raising; with max_retries >= 0 it ends inside the loop, at
\* attempt max_retries at the latest, and the raise after the loop happens
\* only with max_retries < 0, without any provider call.
C26_Terminates == []C26_State /\ ((pc = "start") ~> Terminal)

C26_Witness ==
    /\ TrailingRaise
    /\ max_retries = -1
    /\ calls = 0
    /\ ~prompt.none

====
